---- MODULE Spec2Model ----
(***************************************************************************)
(* FieldMapperDelegate (src/src/field.mapper.delegate.js): the fluent      *)
(* per-field permission builder.  One delegate object is modelled: its     *)
(* fields are the variables, every public method is one action, and the    *)
(* private helpers are operators on a record holding the object's fields.  *)
(*                                                                         *)
(* JavaScript values are represented as follows.                           *)
(*   strings (permission tokens, accessor names) : sequences of            *)
(*       one-character strings, so that capitalize can be computed;        *)
(*   null / undefined where a token may stand    : Null / Undefined;       *)
(*   flags (true | null | undefined)             : "true" | "null" |       *)
(*       "undefined";                                                      *)
(*   an index or undefined                       : a number or NoIndex;    *)
(*   a mapper object                             : a record with an id     *)
(*       (its identity), NullMapper for null, UndefinedMapper for a        *)
(*       property that is absent or undefined.                             *)
(***************************************************************************)
EXTENDS Integers, Sequences, FiniteSets, TLC

VARIABLES
    permissionRanking,          \* this.permissionRanking
    defaultPermissionRanking,   \* this._defaultPermissionRanking
    methods,                    \* own accessors installed by buildPermissionMethods
    sourceKey,                  \* this.sourceKey
    delegate,                   \* this.delegate : key -> mapper | null | undefined
    curPermissionLvl,           \* this.curPermissionLvl
    alwaysFlag,                 \* this.alwaysFlag
    restrictAtOrAbove,          \* this.restrictAtOrAbove
    restrict,                   \* this.restrict
    isList,                     \* this.isList
    lastOp,                     \* the call made last and whether it threw
    result,                     \* what the last call returned, when it was transform
    hist,                       \* the first MaxHist calls made since construction
    nOps                        \* the number of calls made since construction

vars == << permissionRanking, defaultPermissionRanking, methods, sourceKey,
           delegate, curPermissionLvl, alwaysFlag, restrictAtOrAbove,
           restrict, isList, lastOp, result, hist, nOps >>

-----------------------------------------------------------------------------
(* Bounds *)

\* calls recorded in hist; later calls are made but no longer recorded
MaxHist == 2

\* calls made on one delegate
MaxOps == 3

\* calls made on one delegate when only the builder calls, asList and
\* transform are made (ChainSpec)
MaxChainOps == 4

\* calls recorded in hist in ChainSpec
MaxChainHist == 4

-----------------------------------------------------------------------------
(* Strings *)

LowerCaseLetters ==
    << "a", "b", "c", "d", "e", "f", "g", "h", "i", "j", "k", "l", "m",
       "n", "o", "p", "q", "r", "s", "t", "u", "v", "w", "x", "y", "z" >>

UpperCaseLetters ==
    << "A", "B", "C", "D", "E", "F", "G", "H", "I", "J", "K", "L", "M",
       "N", "O", "P", "Q", "R", "S", "T", "U", "V", "W", "X", "Y", "Z" >>

\* String.prototype.toUpperCase
toUpperCase(str) ==
    [ i \in 1..Len(str) |->
        IF \E n \in 1..26 : LowerCaseLetters[n] = str[i]
        THEN UpperCaseLetters[CHOOSE n \in 1..26 : LowerCaseLetters[n] = str[i]]
        ELSE str[i] ]

\* String.prototype.toLowerCase
toLowerCase(str) ==
    [ i \in 1..Len(str) |->
        IF \E n \in 1..26 : UpperCaseLetters[n] = str[i]
        THEN LowerCaseLetters[CHOOSE n \in 1..26 : UpperCaseLetters[n] = str[i]]
        ELSE str[i] ]

\* str.charAt(0).toUpperCase() + str.toLowerCase().slice(1)
capitalize(str) ==
    toUpperCase(SubSeq(str, 1, 1)) \o SubSeq(toLowerCase(str), 2, Len(str))

-----------------------------------------------------------------------------
(* JavaScript values *)

Null == << "null" >>
Undefined == << "undefined" >>
EmptyString == << >>

NoIndex == -1

\* Array.prototype.indexOf, zero-based, -1 when absent
indexOf(arr, x) ==
    IF \E i \in 1..Len(arr) : arr[i] = x
    THEN (CHOOSE i \in 1..Len(arr) :
              arr[i] = x /\ \A j \in 1..(i - 1) : arr[j] # x) - 1
    ELSE -1

\* a token in a boolean position
Truthy(v) == v \notin { Null, Undefined, EmptyString }

-----------------------------------------------------------------------------
(* Permission tokens and rankings *)

PUBLIC == << "P", "U", "B", "L", "I", "C" >>
PRIVATE == << "P", "R", "I", "V", "A", "T", "E" >>

low == << "l", "o", "w" >>
medium == << "m", "e", "d", "i", "u", "m" >>
high == << "h", "i", "g", "h" >>
LOW == << "L", "O", "W" >>
public == << "p", "u", "b", "l", "i", "c" >>

\* a token that is in no ranking
guest == << "g", "u", "e", "s", "t" >>

\* the canonical default ranking, lowest trust first
PermissionRanking == << PUBLIC, PRIVATE >>

\* the rankings a caller supplies to the constructor
SuppliedRankings ==
    { << low, medium, high >>, << low, LOW >>, << public, medium >> }

Tokens(ranking) == { ranking[i] : i \in 1..Len(ranking) }

\* the property keys of this.delegate that the calls on a delegate with this
\* ranking can read or write: null and undefined coerce to keys too
Keys(ranking) == Tokens(ranking) \cup { guest, Null, Undefined }

-----------------------------------------------------------------------------
(* Mappers *)

NullMapper ==
    [ type |-> "null", id |-> 0, builder |-> Undefined,
      transformerKey |-> Undefined, permission |-> Undefined ]

UndefinedMapper ==
    [ type |-> "undefined", id |-> 0, builder |-> Undefined,
      transformerKey |-> Undefined, permission |-> Undefined ]

\* new PassthroughFieldMapper()
PassthroughFieldMapper(id) ==
    [ type |-> "Passthrough", id |-> id, builder |-> Undefined,
      transformerKey |-> Undefined, permission |-> Undefined ]

\* new CustomFieldMapper(builder)
CustomFieldMapper(id, builder) ==
    [ type |-> "Custom", id |-> id, builder |-> builder,
      transformerKey |-> Undefined, permission |-> Undefined ]

\* new SubTransformFieldMapper(transformerKey, permissionLvl)
SubTransformFieldMapper(id, transformerKey, permissionLvl) ==
    [ type |-> "SubTransform", id |-> id, builder |-> Undefined,
      transformerKey |-> transformerKey, permission |-> permissionLvl ]

\* a mapper in a boolean position: null and undefined are falsy
IsMapper(m) == m.type \notin { "null", "undefined" }

\* the identities of the mapper objects the table refers to
UsedIds(d) == { d[k].id : k \in { q \in DOMAIN d : IsMapper(d[q]) } }

\* the identity of the n-th object allocated by a call that starts with
\* table d: an identity no object reachable from d has
FreshId(d, n) ==
    LET free == (1..(2 * Cardinality(DOMAIN d))) \ UsedIds(d)
    IN  CHOOSE i \in free : Cardinality({ j \in free : j < i }) = n - 1

\* the builder functions and transformer references a caller passes
Builders == { << "plusOne" >>, << "zero" >> }
TransformerKeys == { << "something" >> }

\* the source objects a caller passes to transform, by position
Instances == << [ woop |-> 200 ], [ other |-> 1 ] >>

\* instance[key] as a value: << >> is undefined
Get(instance, key) ==
    IF key \in DOMAIN instance THEN << instance[key] >> ELSE << >>

\* what a builder function returns
ApplyBuilder(builder, instance, key, list) ==
    IF builder = << "plusOne" >>
    THEN (IF Get(instance, key) = << >>
          THEN << >> ELSE << instance[key] + 1 >>)
    ELSE << 0 >>

\* the value a resolved promise carries: value is << >> for undefined; a
\* sub-transform yields the child's field transformed at level `at'
Resolved(value, at, list) ==
    [ settled |-> "resolved", value |-> value, at |-> at, list |-> list ]

ResolvedUndefined == Resolved(<< >>, Undefined, "undefined")

\* fieldMapper.map(instance, sourceKey, isList)
map(fieldMapper, instance, key, list) ==
    CASE fieldMapper.type = "Passthrough" ->
             Resolved(Get(instance, key), Undefined, "undefined")
      [] fieldMapper.type = "Custom" ->
             Resolved(ApplyBuilder(fieldMapper.builder, instance, key, list),
                      Undefined, "undefined")
      [] OTHER ->
             Resolved(Get(instance, key), fieldMapper.permission, list)

-----------------------------------------------------------------------------
(* The delegate object: methods as operators on the record of its fields *)

\* the object whose fields are the variables
This ==
    [ permissionRanking |-> permissionRanking,
      defaultPermissionRanking |-> defaultPermissionRanking,
      methods |-> methods,
      sourceKey |-> sourceKey,
      delegate |-> delegate,
      curPermissionLvl |-> curPermissionLvl,
      alwaysFlag |-> alwaysFlag,
      restrictAtOrAbove |-> restrictAtOrAbove,
      restrict |-> restrict,
      isList |-> isList ]

\* a call that returns normally, and a call that throws
Return(t) == [ threw |-> FALSE, this |-> t ]
Throw(t) == [ threw |-> TRUE, this |-> t ]

\* the accessor names installed by a forEach over ranking, as a set of
\* << name, token >> pairs: a later token overwrites an earlier one of the
\* same name
RECURSIVE InstallMethods(_, _, _)
InstallMethods(table, ranking, i) ==
    IF i > Len(ranking) THEN table
    ELSE InstallMethods(
             { e \in table : e[1] # capitalize(ranking[i]) }
                 \cup { << capitalize(ranking[i]), ranking[i] >> },
             ranking, i + 1)

MethodNames(table) == { e[1] : e \in table }
BoundToken(table, name) == (CHOOSE e \in table : e[1] = name)[2]

\* buildPermissionMethods: the accessors set on the instance
buildPermissionMethods(ranking) == InstallMethods({}, ranking, 1)

\* the accessors set on FieldMapperDelegate.prototype
PrototypeMethods == InstallMethods({}, PermissionRanking, 1)

\* new FieldMapperDelegate(key, ranking); ranking is Undefined when omitted
constructor(key, ranking) ==
    LET used == IF ranking = Undefined THEN PermissionRanking ELSE ranking
    IN  [ permissionRanking |-> used,
          defaultPermissionRanking |->
              IF ranking = Undefined THEN "true" ELSE "undefined",
          methods |-> buildPermissionMethods(used),
          sourceKey |-> key,
          delegate |-> [ k \in Keys(used) |-> UndefinedMapper ],
          curPermissionLvl |-> Undefined,
          alwaysFlag |-> "undefined",
          restrictAtOrAbove |-> NoIndex,
          restrict |-> NoIndex,
          isList |-> "undefined" ]

\* variant: always() starts from an empty table
alwaysClears(t) ==
    Return([ t EXCEPT
        !.alwaysFlag = "true",
        !.curPermissionLvl =
            IF Len(t.permissionRanking) > 0
            THEN t.permissionRanking[1] ELSE Undefined,
        !.delegate = [ k \in DOMAIN t.delegate |-> UndefinedMapper ] ])

always(t) ==
    Return([ t EXCEPT
        !.alwaysFlag = "true",
        !.curPermissionLvl =
            IF Len(t.permissionRanking) > 0
            THEN t.permissionRanking[1] ELSE Undefined ])

when(t, permission) ==
    Return([ t EXCEPT !.curPermissionLvl = permission ])

\* variant: the current level is set before the level is looked up
atOrAboveSetsFirst(t, permission) ==
    LET index == indexOf(t.permissionRanking, permission)
    IN  IF index = -1 THEN Throw([ t EXCEPT !.curPermissionLvl = permission ])
        ELSE Return([ t EXCEPT !.restrictAtOrAbove = index,
                               !.curPermissionLvl = permission ])

atOrAbove(t, permission) ==
    LET index == indexOf(t.permissionRanking, permission)
    IN  IF index = -1 THEN Throw(t)
        ELSE Return([ t EXCEPT !.restrictAtOrAbove = index,
                               !.curPermissionLvl = permission ])

restrictTo(t, permission) ==
    LET index == indexOf(t.permissionRanking, permission)
    IN  IF index = -1 THEN Throw(t)
        ELSE Return([ t EXCEPT !.restrict = index,
                               !.curPermissionLvl = permission ])

\* _always: copy the slot of the current level into the slot of every level
RECURSIVE alwaysLoop(_, _, _)
alwaysLoop(d, t, i) ==
    IF i > Len(t.permissionRanking) THEN d
    ELSE alwaysLoop(
             [ d EXCEPT ![t.permissionRanking[i]] = d[t.curPermissionLvl] ],
             t, i + 1)

\* variant: the broadcast is skipped
alwaysSkipped_(t) == t

always_(t) ==
    IF t.alwaysFlag = "true"
    THEN [ t EXCEPT !.delegate = alwaysLoop(t.delegate, t, 1) ]
    ELSE t

\* variant: the cutoff level itself is denied too
RECURSIVE restrictAtOrAboveLoopOffByOne(_, _, _, _)
restrictAtOrAboveLoopOffByOne(d, t, fieldMapper, i) ==
    IF ~(i < Len(t.permissionRanking)) THEN d
    ELSE restrictAtOrAboveLoopOffByOne(
             [ d EXCEPT ![t.permissionRanking[i + 1]] =
                 IF i <= t.restrictAtOrAbove THEN NullMapper ELSE fieldMapper ],
             t, fieldMapper, i + 1)

\* _restrictAtOrAbove; i is the zero-based loop index
RECURSIVE restrictAtOrAboveLoop(_, _, _, _)
restrictAtOrAboveLoop(d, t, fieldMapper, i) ==
    IF ~(i < Len(t.permissionRanking)) THEN d
    ELSE restrictAtOrAboveLoop(
             [ d EXCEPT ![t.permissionRanking[i + 1]] =
                 IF i < t.restrictAtOrAbove THEN NullMapper ELSE fieldMapper ],
             t, fieldMapper, i + 1)

restrictAtOrAbove_(t, fieldMapper) ==
    IF t.restrictAtOrAbove # NoIndex
    THEN [ t EXCEPT !.delegate =
               restrictAtOrAboveLoop(t.delegate, t, fieldMapper, 0) ]
    ELSE t

\* variant: only the levels below the sole level are denied
RECURSIVE restrictToLoopBelow(_, _, _, _)
restrictToLoopBelow(d, t, fieldMapper, i) ==
    IF ~(i < Len(t.permissionRanking)) THEN d
    ELSE restrictToLoopBelow(
             [ d EXCEPT ![t.permissionRanking[i + 1]] =
                 IF i < t.restrict THEN NullMapper ELSE fieldMapper ],
             t, fieldMapper, i + 1)

\* _restrictTo; i is the zero-based loop index
RECURSIVE restrictToLoop(_, _, _, _)
restrictToLoop(d, t, fieldMapper, i) ==
    IF ~(i < Len(t.permissionRanking)) THEN d
    ELSE restrictToLoop(
             [ d EXCEPT ![t.permissionRanking[i + 1]] =
                 IF i # t.restrict THEN NullMapper ELSE fieldMapper ],
             t, fieldMapper, i + 1)

restrictTo_(t, fieldMapper) ==
    IF t.restrict # NoIndex
    THEN [ t EXCEPT !.delegate = restrictToLoop(t.delegate, t, fieldMapper, 0) ]
    ELSE t

\* variant: the list flag is reset with the selection
checkAndResetClearsList_(t, fieldMapper) ==
    LET a == always_(t)
        b == restrictAtOrAbove_(a, fieldMapper)
        c == restrictTo_(b, fieldMapper)
    IN  [ c EXCEPT !.curPermissionLvl = Null, !.alwaysFlag = "null",
                   !.isList = "null" ]

\* variant: the cutoff index and the sole index are reset with the selection
checkAndResetClearsRestrictions_(t, fieldMapper) ==
    LET a == always_(t)
        b == restrictAtOrAbove_(a, fieldMapper)
        c == restrictTo_(b, fieldMapper)
    IN  [ c EXCEPT !.curPermissionLvl = Null, !.alwaysFlag = "null",
                   !.restrictAtOrAbove = NoIndex, !.restrict = NoIndex ]

\* variant: the always flag is not reset
checkAndResetKeepsFlag_(t, fieldMapper) ==
    LET a == always_(t)
        b == restrictAtOrAbove_(a, fieldMapper)
        c == restrictTo_(b, fieldMapper)
    IN  [ c EXCEPT !.curPermissionLvl = Null ]

\* _checkAndReset
checkAndReset_(t, fieldMapper) ==
    LET a == always_(t)
        b == restrictAtOrAbove_(a, fieldMapper)
        c == restrictTo_(b, fieldMapper)
    IN  [ c EXCEPT !.curPermissionLvl = Null, !.alwaysFlag = "null" ]

passthrough(t) ==
    LET set == [ t EXCEPT !.delegate[t.curPermissionLvl] =
                     PassthroughFieldMapper(FreshId(t.delegate, 1)) ]
    IN  Return(checkAndReset_(set, set.delegate[set.curPermissionLvl]))

buildWith(t, builder) ==
    LET set == [ t EXCEPT !.delegate[t.curPermissionLvl] =
                     CustomFieldMapper(FreshId(t.delegate, 1), builder) ]
    IN  Return(checkAndReset_(set, set.delegate[set.curPermissionLvl]))

\* subTransform, first branch: one mapper written to every level
RECURSIVE sameMapperLoop(_, _, _, _)
sameMapperLoop(d, ranking, mapper, i) ==
    IF i > Len(ranking) THEN d
    ELSE sameMapperLoop([ d EXCEPT ![ranking[i]] = mapper ],
                        ranking, mapper, i + 1)

\* subTransform, second branch: a new mapper per level, bound to that
\* level; d0 is the table the call started with
RECURSIVE perLevelLoop(_, _, _, _, _)
perLevelLoop(d, d0, ranking, transformerKey, i) ==
    IF i > Len(ranking) THEN d
    ELSE perLevelLoop(
             [ d EXCEPT ![ranking[i]] =
                 SubTransformFieldMapper(FreshId(d0, i), transformerKey,
                                         ranking[i]) ],
             d0, ranking, transformerKey, i + 1)

\* variant: the explicit level is ignored, every level gets its own mapper
subTransformWritePerLevel(t, transformerKey, permissionLvl) ==
    perLevelLoop(t.delegate, t.delegate, t.permissionRanking,
                 transformerKey, 1)

\* subTransform, the table after the branch on permissionLvl; permissionLvl
\* is Undefined when the argument is omitted
subTransformWrite(t, transformerKey, permissionLvl) ==
    IF Truthy(permissionLvl)
    THEN sameMapperLoop(
             t.delegate, t.permissionRanking,
             SubTransformFieldMapper(FreshId(t.delegate, 1), transformerKey,
                                     permissionLvl),
             1)
    ELSE perLevelLoop(t.delegate, t.delegate, t.permissionRanking,
                      transformerKey, 1)

\* variant: the always flag is left as it was
subTransformKeepsFlag(t, transformerKey, permissionLvl) ==
    IF Truthy(permissionLvl)
           /\ indexOf(t.permissionRanking, permissionLvl) = -1
    THEN Throw(t)
    ELSE
        LET set == [ t EXCEPT !.delegate =
                         subTransformWrite(t, transformerKey, permissionLvl) ]
        IN  Return(checkAndReset_(set, set.delegate[set.curPermissionLvl]))

subTransform(t, transformerKey, permissionLvl) ==
    IF Truthy(permissionLvl)
           /\ indexOf(t.permissionRanking, permissionLvl) = -1
    THEN Throw(t)
    ELSE
        LET set == [ t EXCEPT !.delegate =
                         subTransformWrite(t, transformerKey, permissionLvl),
                              !.alwaysFlag = "null" ]
        IN  Return(checkAndReset_(set, set.delegate[set.curPermissionLvl]))

asList(t) == Return([ t EXCEPT !.isList = "true" ])

\* what transform returns: the map call it made, if any, and the promise
NoCall == [ called |-> FALSE, mapper |-> UndefinedMapper, instance |-> 0,
            key |-> "undefined", list |-> "undefined" ]

\* variant: a level without a mapper falls back to pass-through
transformFallback(t, permission, n) ==
    LET fieldMapper == t.delegate[permission]
    IN  IF IsMapper(fieldMapper)
        THEN [ call |-> [ called |-> TRUE, mapper |-> fieldMapper,
                          instance |-> n, key |-> t.sourceKey,
                          list |-> t.isList ],
               promise |-> map(fieldMapper, Instances[n], t.sourceKey,
                               t.isList) ]
        ELSE [ call |-> NoCall,
               promise |-> map(PassthroughFieldMapper(0), Instances[n],
                               t.sourceKey, t.isList) ]

transform(t, permission, n) ==
    LET fieldMapper == t.delegate[permission]
    IN  IF IsMapper(fieldMapper)
        THEN [ call |-> [ called |-> TRUE, mapper |-> fieldMapper,
                          instance |-> n, key |-> t.sourceKey,
                          list |-> t.isList ],
               promise |-> map(fieldMapper, Instances[n], t.sourceKey,
                               t.isList) ]
        ELSE [ call |-> NoCall, promise |-> ResolvedUndefined ]

\* this[kind + name](): the instance's own accessor when there is one,
\* otherwise the prototype's, which checks the default-ranking flag first
Select(t, kind, permission) ==
    CASE kind = "when" -> when(t, permission)
      [] kind = "atOrAbove" -> atOrAbove(t, permission)
      [] OTHER -> restrictTo(t, permission)

\* variant: the prototype's accessors do not check the flag
accessorUnguarded(t, kind, name) ==
    IF name \in MethodNames(t.methods)
    THEN Select(t, kind, BoundToken(t.methods, name))
    ELSE Select(t, kind, BoundToken(PrototypeMethods, name))

accessor(t, kind, name) ==
    IF name \in MethodNames(t.methods)
    THEN Select(t, kind, BoundToken(t.methods, name))
    ELSE IF t.defaultPermissionRanking # "true"
         THEN Throw(t)
         ELSE Select(t, kind, BoundToken(PrototypeMethods, name))

-----------------------------------------------------------------------------
(* The state machine: one delegate, its methods called in any order *)

\* a call: the method, for a generated accessor its kind, the token,
\* builder or accessor name passed, the instance passed, and the outcome
Call(op, kind, arg, n) ==
    [ op |-> op, kind |-> kind, arg |-> arg, instance |-> n, threw |-> FALSE ]

Constructed == Call("constructor", "", Undefined, 0)
Dropped == << Call("dropped", "", Undefined, 0) >>

\* no transform was the last call
NoResult ==
    [ call |-> NoCall,
      promise |-> [ settled |-> "none", value |-> << >>, at |-> Undefined,
                    list |-> "undefined" ] ]

\* the levels a caller passes: those of the ranking and one that is not
ArgLevels == Tokens(permissionRanking) \cup { guest }

\* the accessors that exist on the object, own or inherited
AccessorNames == MethodNames(methods) \cup MethodNames(PrototypeMethods)

Init ==
    \E ranking \in SuppliedRankings \cup { Undefined } :
        LET t == constructor("woop", ranking)
        IN  /\ permissionRanking = t.permissionRanking
            /\ defaultPermissionRanking = t.defaultPermissionRanking
            /\ methods = t.methods
            /\ sourceKey = t.sourceKey
            /\ delegate = t.delegate
            /\ curPermissionLvl = t.curPermissionLvl
            /\ alwaysFlag = t.alwaysFlag
            /\ restrictAtOrAbove = t.restrictAtOrAbove
            /\ restrict = t.restrict
            /\ isList = t.isList
            /\ lastOp = Constructed
            /\ result = NoResult
            /\ hist = << >>
            /\ nOps = 0

\* the call is recorded as the last one, and in hist while fewer than cap
\* calls were made
Record(call, cap) ==
    /\ nOps' = nOps + 1
    /\ lastOp' = call
    /\ hist' = IF hist # Dropped /\ Len(hist) < cap
               THEN Append(hist, call) ELSE Dropped

\* a method call with outcome r: the fields become those r leaves
Apply(call, r, cap) ==
    \E done \in { r } :
        /\ permissionRanking' = done.this.permissionRanking
        /\ defaultPermissionRanking' = done.this.defaultPermissionRanking
        /\ methods' = done.this.methods
        /\ sourceKey' = done.this.sourceKey
        /\ delegate' = done.this.delegate
        /\ curPermissionLvl' = done.this.curPermissionLvl
        /\ alwaysFlag' = done.this.alwaysFlag
        /\ restrictAtOrAbove' = done.this.restrictAtOrAbove
        /\ restrict' = done.this.restrict
        /\ isList' = done.this.isList
        /\ result' = NoResult
        /\ Record([ call EXCEPT !.threw = done.threw ], cap)

Do(call, r) == nOps < MaxOps /\ Apply(call, r, MaxHist)

Always == Do(Call("always", "", Undefined, 0), always(This))

When ==
    \E permission \in ArgLevels :
        Do(Call("when", "", permission, 0), when(This, permission))

AtOrAbove ==
    \E permission \in ArgLevels :
        Do(Call("atOrAbove", "", permission, 0), atOrAbove(This, permission))

RestrictTo ==
    \E permission \in ArgLevels :
        Do(Call("restrictTo", "", permission, 0), restrictTo(This, permission))

Passthrough == Do(Call("passthrough", "", Undefined, 0), passthrough(This))

BuildWith ==
    \E builder \in Builders :
        Do(Call("buildWith", "", builder, 0), buildWith(This, builder))

SubTransform ==
    \E transformerKey \in TransformerKeys :
        \E permissionLvl \in ArgLevels \cup { Undefined } :
            Do(Call("subTransform", "", permissionLvl, 0),
               subTransform(This, transformerKey, permissionLvl))

AsList == Do(Call("asList", "", Undefined, 0), asList(This))

Transform ==
    \E permission \in ArgLevels :
        \E n \in 1..Len(Instances) :
            /\ nOps < MaxOps
            /\ result' = transform(This, permission, n)
            /\ Record(Call("transform", "", permission, n), MaxHist)
            /\ UNCHANGED << permissionRanking, defaultPermissionRanking,
                            methods, sourceKey, delegate, curPermissionLvl,
                            alwaysFlag, restrictAtOrAbove, restrict, isList >>

Accessor ==
    \E kind \in { "when", "atOrAbove", "restrictTo" } :
        \E name \in AccessorNames :
            Do(Call("accessor", kind, name, 0), accessor(This, kind, name))

Next ==
    \/ Always
    \/ When
    \/ AtOrAbove
    \/ RestrictTo
    \/ Passthrough
    \/ BuildWith
    \/ SubTransform
    \/ AsList
    \/ Transform
    \/ Accessor

Spec == Init /\ [][Next]_vars

-----------------------------------------------------------------------------
(* Builder chains followed further: the same methods with fewer arguments, *)
(* more calls                                                              *)

ChainRankings == { << low, medium, high >>, Undefined }

ChainInit ==
    /\ Init
    /\ \E ranking \in ChainRankings :
           permissionRanking = constructor("woop", ranking).permissionRanking

DoChain(call, r) == nOps < MaxChainOps /\ Apply(call, r, MaxChainHist)

ChainAlways == DoChain(Call("always", "", Undefined, 0), always(This))

ChainWhen ==
    \E permission \in ArgLevels :
        DoChain(Call("when", "", permission, 0), when(This, permission))

ChainAtOrAbove ==
    \E permission \in Tokens(permissionRanking) :
        DoChain(Call("atOrAbove", "", permission, 0),
                atOrAbove(This, permission))

ChainRestrictTo ==
    \E permission \in Tokens(permissionRanking) :
        DoChain(Call("restrictTo", "", permission, 0),
                restrictTo(This, permission))

ChainPassthrough ==
    DoChain(Call("passthrough", "", Undefined, 0), passthrough(This))

ChainSubTransform ==
    \E transformerKey \in TransformerKeys :
        DoChain(Call("subTransform", "", Undefined, 0),
                subTransform(This, transformerKey, Undefined))

ChainAsList == DoChain(Call("asList", "", Undefined, 0), asList(This))

ChainTransform ==
    \E permission \in Tokens(permissionRanking) :
        /\ nOps < MaxChainOps
        /\ result' = transform(This, permission, 1)
        /\ Record(Call("transform", "", permission, 1), MaxChainHist)
        /\ UNCHANGED << permissionRanking, defaultPermissionRanking,
                        methods, sourceKey, delegate, curPermissionLvl,
                        alwaysFlag, restrictAtOrAbove, restrict, isList >>

ChainNext ==
    \/ ChainAlways
    \/ ChainWhen
    \/ ChainAtOrAbove
    \/ ChainRestrictTo
    \/ ChainPassthrough
    \/ ChainSubTransform
    \/ ChainAsList
    \/ ChainTransform

ChainSpec == ChainInit /\ [][ChainNext]_vars

-----------------------------------------------------------------------------
(* Calls, as they appear in lastOp and hist *)

CallAlways == Call("always", "", Undefined, 0)
CallWhen(P) == Call("when", "", P, 0)
CallAtOrAbove(P) == Call("atOrAbove", "", P, 0)
CallRestrictTo(P) == Call("restrictTo", "", P, 0)
CallPassthrough == Call("passthrough", "", Undefined, 0)
CallBuildWith(fn) == Call("buildWith", "", fn, 0)
CallSubTransform(L) == Call("subTransform", "", L, 0)

Ranking == Tokens(permissionRanking)

\* the assignment calls that return normally
Assignments ==
    { CallPassthrough }
        \cup { CallBuildWith(fn) : fn \in Builders }
        \cup { CallSubTransform(L) : L \in Ranking \cup { Undefined } }

\* mapper m is of the kind the assignment call creates
CreatedBy(call, m) ==
    CASE call.op = "passthrough" -> m.type = "Passthrough"
      [] call.op = "buildWith" -> m.type = "Custom" /\ m.builder = call.arg
      [] OTHER -> /\ m.type = "SubTransform"
                  /\ Truthy(call.arg) => m.permission = call.arg

-----------------------------------------------------------------------------
(* C1 *)

\* C1: on a fresh delegate, after restrictTo(P) then passthrough(), the slot
\* of P holds a pass-through mapper and the slot of every other level of the
\* ranking, below P and above P alike, is null
C1_RestrictToThenPassthrough ==
    \A P \in Ranking :
        hist = << CallRestrictTo(P), CallPassthrough >> =>
            \A L \in Ranking :
                IF L = P THEN delegate[L].type = "Passthrough"
                ELSE delegate[L] = NullMapper

C1_Witness ==
    /\ permissionRanking = << low, medium, high >>
    /\ hist = << CallRestrictTo(medium), CallPassthrough >>
    /\ delegate[medium].type = "Passthrough"
    /\ delegate[low] = NullMapper
    /\ delegate[high] = NullMapper

-----------------------------------------------------------------------------
(* C2 *)

-----------------------------------------------------------------------------
(* C3 *)

\* C3: on a fresh delegate, after always() then passthrough() (or
\* buildWith(fn)), every level of the ranking holds a pass-through mapper
\* (or the custom mapper wrapping fn), the same object at all levels
C3_AlwaysThenAssign ==
    \A a \in { CallPassthrough } \cup { CallBuildWith(fn) : fn \in Builders } :
        hist = << CallAlways, a >> =>
            \A L \in Ranking :
                /\ CreatedBy(a, delegate[L])
                /\ delegate[L].id = delegate[permissionRanking[1]].id

C3_Witness ==
    /\ hist = << CallAlways, CallBuildWith(<< "zero" >>) >>
    /\ Len(permissionRanking) = 3
    /\ \A L \in Ranking : delegate[L].builder = << "zero" >>

-----------------------------------------------------------------------------
(* C4 *)

-----------------------------------------------------------------------------
(* C5 *)

\* C5: on a fresh delegate, after always() then subTransform(ref) without a
\* level, every level P holds a sub-transform mapper bound to P, and two
\* different levels hold different mapper objects
C5_AlwaysThenSubTransform ==
    hist = << CallAlways, CallSubTransform(Undefined) >> =>
        /\ \A P \in Ranking :
               /\ delegate[P].type = "SubTransform"
               /\ delegate[P].permission = P
        /\ \A P, Q \in Ranking : P # Q => delegate[P].id # delegate[Q].id

C5_Witness ==
    /\ hist = << CallAlways, CallSubTransform(Undefined) >>
    /\ permissionRanking = << low, medium, high >>
    /\ delegate[high].permission = high
    /\ delegate[low].id # delegate[high].id

-----------------------------------------------------------------------------
(* C6 *)

\* C6: on a fresh delegate, after always() then subTransform(ref, L), every
\* level holds one and the same sub-transform mapper, bound to L
C6_AlwaysThenSubTransformAt ==
    \A L \in Ranking :
        hist = << CallAlways, CallSubTransform(L) >> =>
            \A P \in Ranking :
                /\ delegate[P].type = "SubTransform"
                /\ delegate[P].permission = L
                /\ delegate[P].id = delegate[L].id

C6_Witness ==
    /\ hist = << CallAlways, CallSubTransform(PUBLIC) >>
    /\ delegate[PRIVATE].permission = PUBLIC
    /\ delegate[PRIVATE].id = delegate[PUBLIC].id

-----------------------------------------------------------------------------
(* C7 *)

\* the selection calls that return normally
Selections ==
    { CallAlways }
        \cup { CallWhen(P) : P \in ArgLevels }
        \cup { CallAtOrAbove(P) : P \in Ranking }
        \cup { CallRestrictTo(P) : P \in Ranking }

\* C7: after any selection then subTransform(ref) without a level, every
\* level L of the ranking whose slot holds a mapper holds a sub-transform
\* mapper bound to L itself
C7_ParentLevelUsedForChild ==
    \A sel \in Selections :
        hist = << sel, CallSubTransform(Undefined) >> =>
            \A L \in Ranking :
                IsMapper(delegate[L]) =>
                    /\ delegate[L].type = "SubTransform"
                    /\ delegate[L].permission = L

-----------------------------------------------------------------------------
(* C8 *)

\* the fields a selection or an assignment may write
fields ==
    << delegate, curPermissionLvl, alwaysFlag, restrictAtOrAbove, restrict,
       isList >>

\* C8: atOrAbove(level), restrictTo(level) and subTransform(ref, level)
\* throw when level is not in the ranking, and the call that threw leaves
\* the table and every selection field as they were
C8_UnknownLevelThrows ==
    [][ ( /\ lastOp'.op \in { "atOrAbove", "restrictTo", "subTransform" }
          /\ Truthy(lastOp'.arg)
          /\ lastOp'.arg \notin Tokens(permissionRanking) )
        => ( lastOp'.threw /\ UNCHANGED fields ) ]_vars

C8_Witness ==
    /\ permissionRanking = << low, medium, high >>
    /\ lastOp = [ CallSubTransform(guest) EXCEPT !.threw = TRUE ]
    /\ nOps = 3
    /\ restrict = 1
    /\ curPermissionLvl = Null
    /\ delegate[medium].type = "Passthrough"

-----------------------------------------------------------------------------
(* C9 *)

DefaultAccessorNames == { capitalize(D) : D \in Tokens(PermissionRanking) }

\* C9 as stated: on a delegate built with a supplied ranking, every default
\* accessor throws, whatever the supplied ranking contains
C9_DefaultAccessorAlwaysThrows ==
    ( /\ defaultPermissionRanking # "true"
      /\ lastOp.op = "accessor"
      /\ lastOp.arg \in DefaultAccessorNames )
    => lastOp.threw

\* C9, amended: on a delegate built with a supplied ranking, a default
\* accessor whose name is not the accessor name of a token of the supplied
\* ranking throws and selects nothing
C9_DefaultAccessorThrowsUnlessGenerated ==
    [][ ( /\ defaultPermissionRanking # "true"
          /\ lastOp'.op = "accessor"
          /\ lastOp'.arg \in DefaultAccessorNames
          /\ \A T \in Tokens(permissionRanking) :
                 capitalize(T) # lastOp'.arg )
        => ( lastOp'.threw /\ UNCHANGED fields ) ]_vars

C9_Witness ==
    /\ permissionRanking = << public, medium >>
    /\ lastOp = [ Call("accessor", "when", capitalize(PRIVATE), 0)
                    EXCEPT !.threw = TRUE ]
    /\ curPermissionLvl = Undefined

-----------------------------------------------------------------------------
(* C10 *)

\* C10: for every token T of the ranking, the accessors named by
\* capitalize(T) select T: the current level becomes T, atOrAbove<T>() sets
\* the cutoff index and restrictTo<T>() the sole index to the index of T
C10_GeneratedAccessorSelectsItsToken ==
    \A T \in Ranking :
        ( lastOp.op = "accessor" /\ lastOp.arg = capitalize(T) ) =>
            /\ ~lastOp.threw
            /\ curPermissionLvl = T
            /\ lastOp.kind = "atOrAbove" =>
                   restrictAtOrAbove = indexOf(permissionRanking, T)
            /\ lastOp.kind = "restrictTo" =>
                   restrict = indexOf(permissionRanking, T)

-----------------------------------------------------------------------------
(* C11..C19 *)

AssignOps == { "passthrough", "buildWith", "subTransform" }
SelectOps == { "always", "when", "atOrAbove", "restrictTo", "accessor" }

\* the last call was an assignment that returned normally
Assigned == lastOp.op \in AssignOps /\ ~lastOp.threw

\* the level at zero-based index i of the ranking
LevelAt(i) == permissionRanking[i + 1]

-----------------------------------------------------------------------------
(* C11 *)

\* C11: when(level) never throws, and a token that is not in the ranking
\* never matches a transform query: a transform for such a token makes no
\* map call and resolves to undefined
C11_UnregisteredNeverMatches ==
    /\ lastOp.op = "when" => ~lastOp.threw
    /\ ( lastOp.op = "transform" /\ lastOp.arg \notin Ranking ) =>
           /\ ~result.call.called
           /\ result.promise = ResolvedUndefined

-----------------------------------------------------------------------------
(* C12 *)

\* C12: after a complete builder chain (a selection, then an assignment)
\* every level of the ranking holds a mapper or null; none is left absent
C12_NoLevelLeftAbsent ==
    \A sel \in Selections : \A a \in Assignments :
        hist = << sel, a >> =>
            \A L \in Ranking : delegate[L] # UndefinedMapper

-----------------------------------------------------------------------------
(* C13 *)

\* C13: the list flag is true exactly from the first asList() on, no call
\* clears it, and transform passes the flag as it then is to map: true after
\* asList(), also to mappers assigned before it, and not true before
C13_ListFlagSticks ==
    /\ [][ isList' = "true" <=> ( isList = "true" \/ lastOp'.op = "asList" )
         ]_vars
    /\ []( ( lastOp.op = "transform" /\ result.call.called ) =>
               /\ isList = "true" => result.call.list = "true"
               /\ isList # "true" => result.call.list # "true" )

C13_Witness ==
    /\ permissionRanking = << low, medium, high >>
    /\ hist = << CallAlways, CallPassthrough,
                 Call("asList", "", Undefined, 0),
                 Call("transform", "", high, 1) >>
    /\ lastOp.op = "transform"
    /\ result.call.called
    /\ result.call.mapper.type = "Passthrough"
    /\ result.call.list = "true"

-----------------------------------------------------------------------------
(* C14 *)

\* C14: with no cutoff index and no sole index set, when(L) followed by an
\* assignment leaves the slot of every level of the ranking other than L as
\* it was
C14_WhenTargetsOneLevel ==
    [][ \A L \in Tokens(permissionRanking) :
            ( /\ lastOp = CallWhen(L)
              /\ restrictAtOrAbove = NoIndex
              /\ restrict = NoIndex
              /\ lastOp'.op \in AssignOps
              /\ ~lastOp'.threw )
            => \A M \in Tokens(permissionRanking) \ { L } :
                   delegate'[M] = delegate[M] ]_vars

-----------------------------------------------------------------------------
(* C15 *)

\* once set, the cutoff index and the sole index stay set
RestrictionsKept ==
    /\ restrictAtOrAbove # NoIndex => restrictAtOrAbove' # NoIndex
    /\ restrict # NoIndex => restrict' # NoIndex

\* C15 as stated: the cutoff index and the sole index are never cleared, and
\* after every assignment every level below the cutoff is null and every
\* level other than the sole level is null
C15_RestrictionReapplied ==
    /\ [][RestrictionsKept]_vars
    /\ []( Assigned =>
             \A L \in Ranking :
                 /\ ( /\ restrictAtOrAbove # NoIndex
                      /\ indexOf(permissionRanking, L) < restrictAtOrAbove )
                        => delegate[L] = NullMapper
                 /\ ( /\ restrict # NoIndex
                      /\ indexOf(permissionRanking, L) # restrict )
                        => delegate[L] = NullMapper )

\* C15, amended: the cutoff index and the sole index are never cleared, and
\* after every assignment every level below the cutoff, other than the sole
\* level when a sole index is set as well, is null, and every level other
\* than the sole level is null
C15_RestrictionReappliedExceptSole ==
    /\ [][RestrictionsKept]_vars
    /\ []( Assigned =>
             \A L \in Ranking :
                 /\ ( /\ restrictAtOrAbove # NoIndex
                      /\ indexOf(permissionRanking, L) < restrictAtOrAbove
                      /\ indexOf(permissionRanking, L) # restrict )
                        => delegate[L] = NullMapper
                 /\ ( /\ restrict # NoIndex
                      /\ indexOf(permissionRanking, L) # restrict )
                        => delegate[L] = NullMapper )

C15_Witness ==
    /\ permissionRanking = << low, medium, high >>
    /\ hist = << CallRestrictTo(medium), CallPassthrough,
                 CallAlways, CallPassthrough >>
    /\ lastOp = CallPassthrough
    /\ restrict = 1
    /\ restrictAtOrAbove = NoIndex
    /\ delegate[low] = NullMapper
    /\ delegate[medium].type = "Passthrough"
    /\ delegate[high] = NullMapper

-----------------------------------------------------------------------------
(* C16 *)

\* C16: after every assignment that returned normally the current level is
\* null and the always flag is null
C16_SelectionReset ==
    Assigned => ( curPermissionLvl = Null /\ alwaysFlag = "null" )

C16_Witness ==
    /\ nOps = 2
    /\ hist = << CallAlways, CallPassthrough >>
    /\ lastOp = CallPassthrough
    /\ permissionRanking = PermissionRanking
    /\ curPermissionLvl = Null
    /\ alwaysFlag = "null"

-----------------------------------------------------------------------------
(* C17 *)

\* C17: after an assignment made with both the cutoff index and the sole
\* index set, the sole level holds the mapper just assigned and every other
\* level is null; after an assignment made with the always flag and a
\* restriction set, the levels the restriction excludes are null
C17_LaterRuleWins ==
    /\ ( Assigned /\ restrictAtOrAbove # NoIndex /\ restrict # NoIndex ) =>
           \A L \in Ranking :
               IF indexOf(permissionRanking, L) = restrict
               THEN IsMapper(delegate[L]) /\ CreatedBy(lastOp, delegate[L])
               ELSE delegate[L] = NullMapper
    /\ \A P \in Ranking :
           ( /\ Assigned
             /\ hist = << CallRestrictTo(P), CallAlways, lastOp >> )
           => \A L \in Ranking \ { P } : delegate[L] = NullMapper
    /\ \A P \in Ranking :
           ( /\ Assigned
             /\ hist = << CallAtOrAbove(P), CallAlways, lastOp >> )
           => \A L \in Ranking :
                  indexOf(permissionRanking, L) < indexOf(permissionRanking, P)
                      => delegate[L] = NullMapper

-----------------------------------------------------------------------------
(* C18 *)

\* C18: transform changes no field of the delegate, and always, when,
\* atOrAbove, restrictTo, their generated accessors and asList leave the
\* table as it was, so that a transform between a selection and its
\* assignment reads the table of before the chain
C18_OnlyAssignmentsWriteTable ==
    [][ /\ lastOp'.op = "transform" =>
               UNCHANGED << permissionRanking, defaultPermissionRanking,
                            methods, sourceKey, fields >>
        /\ lastOp'.op \in SelectOps \cup { "asList" } => delegate' = delegate
      ]_vars

C18_Witness ==
    /\ permissionRanking = << low, medium, high >>
    /\ hist = << CallRestrictTo(medium), Call("transform", "", medium, 1) >>
    /\ curPermissionLvl = medium
    /\ restrict = 1
    /\ \A L \in Ranking : delegate[L] = UndefinedMapper
    /\ result.promise = ResolvedUndefined

-----------------------------------------------------------------------------
(* C19 *)

\* C19: narrowing never grants a level an undefined mapper: after an
\* assignment made while the sole index is set the sole level holds a
\* mapper, and after one made while only the cutoff index is set every level
\* at or above the cutoff holds a mapper
C19_NarrowingGrantsMapper ==
    Assigned =>
        /\ restrict # NoIndex => IsMapper(delegate[LevelAt(restrict)])
        /\ ( restrictAtOrAbove # NoIndex /\ restrict = NoIndex ) =>
               \A L \in Ranking :
                   indexOf(permissionRanking, L) >= restrictAtOrAbove
                       => IsMapper(delegate[L])

====
